---- MODULE Spec2Model ----
(***************************************************************************)
(* FNdiMediaPlayer (Source/NdiMedia/Private/Player/NdiMediaPlayer.cpp).    *)
(*                                                                         *)
(* Two execution contexts: the control cycle, which runs the player's      *)
(* public calls, and the audio sampling activity, which polls the          *)
(* transport and delivers audio frames through HandleAudioSamplerSample.   *)
(* A call of the control cycle is cut into steps at the points where it    *)
(* takes or gives up CriticalSection; pc is the control cycle's position.  *)
(*                                                                         *)
(* Pointers are numbers: 0 is nullptr, transport handles are 1, 2, ... in  *)
(* the order NDIlib_recv_create_v2 returned them, sinks are 1..MaxSinks.   *)
(* Rates are in tenths: 0 is 0.0f, 10 is 1.0f, 5 is 0.5f.                  *)
(***************************************************************************)
EXTENDS Integers, Sequences, FiniteSets, TLC

VARIABLES
    \* FNdiMediaPlayer members
    ReceiverInstance, CurrentState, CurrentUrl, Paused,
    AudioSink, MetadataSink, VideoSink,
    SelectedAudioTrack, SelectedMetadataTrack, SelectedVideoTrack,
    LastAudioChannels, LastAudioSampleRate,
    LastBufferDim, LastVideoDim, LastVideoFrameRate, VideoSinkFormat,
    CriticalSection,
    \* the audio sampling activity
    samplerInstance, samplerPc, samplerFrame, samplerCalls,
    \* the transport library
    created, destroyed, destroyCalls, noConnections,
    \* the bound sinks' own state
    audioSinkFormat, textureSinkState, audioInitFailed,
    \* the control cycle
    pc, calls, callArg, closeCaller, lastCall, events, sinkCalls, captures, sent

sinkVars == <<AudioSink, MetadataSink, VideoSink>>
trackVars == <<SelectedAudioTrack, SelectedMetadataTrack, SelectedVideoTrack>>
audioCache == <<LastAudioChannels, LastAudioSampleRate>>
videoCache == <<LastBufferDim, LastVideoDim, LastVideoFrameRate>>
playerVars == <<ReceiverInstance, CurrentState, CurrentUrl, Paused, sinkVars,
                trackVars, audioCache, videoCache, VideoSinkFormat>>
samplerVars == <<samplerInstance, samplerPc, samplerFrame, samplerCalls>>
transportVars == <<created, destroyed, destroyCalls, noConnections>>
sinkStates == <<audioSinkFormat, textureSinkState, audioInitFailed>>
callVars == <<pc, calls, callArg, closeCaller, lastCall, events, sinkCalls, captures, sent>>
vars == <<playerVars, CriticalSection, samplerVars, transportVars,
          sinkStates, callVars>>

\* ---- bounds
\* Handles NDIlib_recv_create_v2 hands out in one behaviour.
MaxHandles == 2
\* Sinks of each kind a caller may bind.
MaxSinks == 1
\* Calls the control cycle makes in one behaviour.
MaxCalls == 5

\* ---- program constants
INDEX_NONE == -1

Sinks == 1..MaxSinks
\* 0.0f, 0.5f, 1.0f and 2.0f
Rates == {0, 5, 10, 20}
ZeroValue == <<0, 0>>
AudioFrames == {[no_channels |-> 2, sample_rate |-> 48]}
\* UYVY frames, two bytes a pixel.
VideoFrames == { [xres |-> 2, yres |-> 1, line_stride_in_bytes |-> 4],
                [xres |-> 4, yres |-> 1, line_stride_in_bytes |-> 8] }
Scheme == <<"n", "d", "i", ":", "/", "/">>
Urls == { <<>>,
          <<"h", "t", "t", "p", ":", "/", "/", "a">>,
          <<"n", "d", "i", ":", "/", "/", "a">> }

Init ==
    /\ ReceiverInstance = 0
    /\ CurrentState = "Closed"
    /\ CurrentUrl = <<>>
    /\ Paused = FALSE
    /\ AudioSink = 0 /\ MetadataSink = 0 /\ VideoSink = 0
    /\ SelectedAudioTrack = INDEX_NONE
    /\ SelectedMetadataTrack = INDEX_NONE
    /\ SelectedVideoTrack = INDEX_NONE
    /\ LastAudioChannels = 0 /\ LastAudioSampleRate = 0
    /\ LastBufferDim = ZeroValue /\ LastVideoDim = ZeroValue
    /\ LastVideoFrameRate = 0
    /\ VideoSinkFormat = "CharUYVY"
    /\ CriticalSection = "none"
    /\ samplerInstance = 0 /\ samplerPc = "idle" /\ samplerFrame = 0
    /\ samplerCalls = <<>>
    /\ created = 0 /\ destroyed = {} /\ destroyCalls = <<>> /\ noConnections = 0
    /\ audioSinkFormat = [s \in Sinks |-> ZeroValue]
    /\ textureSinkState = [s \in Sinks |-> [dim |-> ZeroValue, format |-> "CharUYVY"]]
    /\ audioInitFailed = 0
    /\ pc = "idle" /\ calls = 0 /\ callArg = 0 /\ closeCaller = "none"
    /\ lastCall = [op |-> "new", arg |-> 0, ret |-> TRUE]
    /\ events = <<>> /\ sinkCalls = <<>> /\ captures = <<>> /\ sent = <<>>

\* The control cycle is between two calls and may start the next one.
Idle ==
    /\ pc = "idle"
    /\ samplerPc # "crashed"
    /\ calls < MaxCalls
    /\ calls' = calls + 1

\* Return from a call of the control cycle.
Return(op, arg, ret) ==
    /\ pc' = "idle"
    /\ callArg' = 0
    /\ closeCaller' = "none"
    /\ lastCall' = [op |-> op, arg |-> arg, ret |-> ret]

\* The call goes on at `next`.
Goto(next) == pc' = next /\ lastCall' = lastCall

\* A call of a sink's hook, as the per-call logs record it.
Call(name, sink, args) == [call |-> name, sink |-> sink, args |-> args]

Lower(c) ==
    CASE c = "N" -> "n" [] c = "D" -> "d" [] c = "I" -> "i"
      [] c = "H" -> "h" [] c = "T" -> "t" [] c = "P" -> "p" [] c = "A" -> "a"
      [] OTHER -> c

\* StartsWith with the comparison of the characters lost.
StartsWithLengthOnly(str, prefix) == Len(str) >= Len(prefix)

\* FString::StartsWith, whose default is ESearchCase::IgnoreCase.
StartsWith(str, prefix) ==
    /\ Len(str) >= Len(prefix)
    /\ \A i \in 1..Len(prefix) : Lower(str[i]) = Lower(prefix[i])

GetRate == IF CurrentState = "Playing" THEN 10 ELSE 0

\* SetRate with its last branch lost: every rate but 0.0 resumes.
SetRateAnyResumes(Rate) ==
    /\ Idle
    /\ Paused' = (Rate = 0)
    /\ Return("SetRate", Rate, TRUE)
    /\ events' = <<>> /\ sinkCalls' = <<>> /\ captures' = <<>> /\ sent' = <<>>
    /\ UNCHANGED <<ReceiverInstance, CurrentState, CurrentUrl, sinkVars, trackVars,
                   audioCache, videoCache, VideoSinkFormat>>
    /\ UNCHANGED <<CriticalSection, samplerVars, transportVars, sinkStates>>

SetRate(Rate) ==
    /\ Idle
    /\ IF Rate = 0
         THEN Paused' = TRUE /\ Return("SetRate", Rate, TRUE)
         ELSE IF Rate = 10
           THEN Paused' = FALSE /\ Return("SetRate", Rate, TRUE)
           ELSE Paused' = Paused /\ Return("SetRate", Rate, FALSE)
    /\ events' = <<>> /\ sinkCalls' = <<>> /\ captures' = <<>> /\ sent' = <<>>
    /\ UNCHANGED <<ReceiverInstance, CurrentState, CurrentUrl, sinkVars, trackVars,
                   audioCache, videoCache, VideoSinkFormat>>
    /\ UNCHANGED <<CriticalSection, samplerVars, transportVars, sinkStates>>

\* ---- the audio sampler's enablement

\* SampleAudio with the test of the selected track lost.
SampleAudioAnyTrack(paused, sink, track) == ~paused /\ sink # 0

SampleAudio(paused, sink, track) == ~paused /\ sink # 0 /\ track = 0

\* AudioSampler->SetReceiverInstance: the sampler's handle reference.
SetReceiverInstance(handle) == samplerInstance' = handle

UpdateAudioSampler(recv, paused, sink, track) ==
    SetReceiverInstance(IF SampleAudio(paused, sink, track) THEN recv ELSE 0)

\* ---- Close

CloseCall ==
    /\ Idle
    /\ CriticalSection = "none"
    /\ CriticalSection' = "control"
    /\ pc' = "close_teardown"
    /\ closeCaller' = "Close"
    /\ callArg' = (ReceiverInstance = 0 /\ CurrentState = "Closed")
    /\ lastCall' = lastCall
    /\ events' = <<>> /\ sinkCalls' = <<>> /\ captures' = <<>> /\ sent' = <<>>
    /\ UNCHANGED <<playerVars, samplerVars, transportVars, sinkStates>>

\* ~FNdiMediaPlayer, which starts with a call of Close.
Destructor ==
    /\ Idle
    /\ CriticalSection = "none"
    /\ CriticalSection' = "control"
    /\ pc' = "close_teardown"
    /\ closeCaller' = "~FNdiMediaPlayer"
    /\ callArg' = (ReceiverInstance = 0 /\ CurrentState = "Closed")
    /\ lastCall' = lastCall
    /\ events' = <<>> /\ sinkCalls' = <<>> /\ captures' = <<>> /\ sent' = <<>>
    /\ UNCHANGED <<playerVars, samplerVars, transportVars, sinkStates>>

\* NDIlib_recv_destroy left out: the handle stays with the transport.
NDIlib_recv_destroy_skipped(handle) == UNCHANGED <<destroyed, destroyCalls>>

NDIlib_recv_destroy(handle) ==
    /\ destroyed' = destroyed \cup {handle}
    /\ destroyCalls' = Append(destroyCalls, handle)

\* The block of Close under the lock.
CloseTeardown ==
    /\ pc = "close_teardown"
    /\ CriticalSection = "control"
    /\ IF ReceiverInstance # 0
         THEN NDIlib_recv_destroy(ReceiverInstance)
         ELSE UNCHANGED <<destroyed, destroyCalls>>
    /\ noConnections' = 0
    /\ ReceiverInstance' = 0
    /\ CurrentState' = "Closed"
    /\ CurrentUrl' = <<>>
    /\ LastAudioChannels' = 0 /\ LastAudioSampleRate' = 0
    /\ LastBufferDim' = ZeroValue /\ LastVideoDim' = ZeroValue
    /\ LastVideoFrameRate' = 0
    /\ SelectedAudioTrack' = INDEX_NONE
    /\ SelectedMetadataTrack' = INDEX_NONE
    /\ SelectedVideoTrack' = INDEX_NONE
    /\ CriticalSection' = "none"
    /\ pc' = "close_update"
    /\ UNCHANGED <<Paused, sinkVars, VideoSinkFormat, samplerVars, created,
                   sinkStates, calls, callArg, closeCaller, lastCall,
                   events, sinkCalls, captures, sent>>

CloseUpdate ==
    /\ pc = "close_update"
    /\ UpdateAudioSampler(ReceiverInstance, Paused, AudioSink, SelectedAudioTrack)
    /\ pc' = "close_notify"
    /\ UNCHANGED <<playerVars, CriticalSection, samplerPc, samplerFrame, samplerCalls,
                   transportVars, sinkStates, calls, callArg, closeCaller,
                   lastCall, events, sinkCalls, captures, sent>>

\* CloseEvents with the two broadcasts exchanged.
CloseEventsExchanged == <<"MediaClosed", "TracksChanged">>

CloseEvents == <<"TracksChanged", "MediaClosed">>

CloseNotify ==
    /\ pc = "close_notify"
    /\ events' = events \o CloseEvents
    /\ IF closeCaller = "Close"
         THEN Return("Close", callArg, TRUE)
         ELSE IF closeCaller = "Open"
           THEN Goto("open_check") /\ UNCHANGED <<callArg, closeCaller>>
           ELSE Goto("delete_sampler") /\ UNCHANGED <<callArg, closeCaller>>
    /\ UNCHANGED <<playerVars, CriticalSection, samplerVars, transportVars,
                   sinkStates, calls, sinkCalls, captures, sent>>

\* The rest of ~FNdiMediaPlayer: the sampler is unbound and deleted, and the
\* player is gone. The delete waits for a delivery that is under way.
DeleteSampler ==
    /\ pc = "delete_sampler"
    /\ samplerPc = "idle"
    /\ SetReceiverInstance(0)
    /\ pc' = "deleted"
    /\ callArg' = 0
    /\ closeCaller' = "none"
    /\ lastCall' = [op |-> "~FNdiMediaPlayer", arg |-> callArg, ret |-> TRUE]
    /\ UNCHANGED <<playerVars, CriticalSection, samplerPc, samplerFrame, samplerCalls,
                   transportVars, sinkStates, calls, events, sinkCalls, captures, sent>>

\* ---- Open

OpenCall(Url) ==
    /\ Idle
    /\ created < MaxHandles
    /\ CriticalSection = "none"
    /\ CriticalSection' = "control"
    /\ pc' = "close_teardown"
    /\ closeCaller' = "Open"
    /\ callArg' = Url
    /\ lastCall' = lastCall
    /\ events' = <<>> /\ sinkCalls' = <<>> /\ captures' = <<>> /\ sent' = <<>>
    /\ UNCHANGED <<playerVars, samplerVars, transportVars, sinkStates>>

OpenCheck ==
    /\ pc = "open_check"
    /\ IF callArg = <<>> \/ ~StartsWith(callArg, Scheme)
         THEN /\ Return("Open", "locator", FALSE)
              /\ UNCHANGED VideoSinkFormat
         ELSE /\ \E ColorFormat \in {"BGRX_BGRA", "UYVY_BGRA", "other"} :
                    VideoSinkFormat' = IF ColorFormat = "BGRX_BGRA"
                                         THEN "CharBGRA" ELSE "CharUYVY"
              /\ Goto("open_create")
              /\ UNCHANGED <<callArg, closeCaller>>
    /\ UNCHANGED <<ReceiverInstance, CurrentState, CurrentUrl, Paused, sinkVars,
                   trackVars, audioCache, videoCache, CriticalSection, samplerVars,
                   transportVars, sinkStates, calls,
                   events, sinkCalls, captures, sent>>

\* OpenCreate with the lock still held after the failure return.
OpenCreateKeepsLock ==
    /\ pc = "open_create"
    /\ CriticalSection = "none"
    /\ \E ok \in BOOLEAN :
          IF ok
            THEN /\ created' = created + 1
                 /\ ReceiverInstance' = created + 1
                 /\ CriticalSection' = "control"
                 /\ Goto("open_finalize")
                 /\ UNCHANGED <<callArg, closeCaller>>
            ELSE /\ created' = created
                 /\ ReceiverInstance' = 0
                 /\ CriticalSection' = "control"
                 /\ Return("Open", "create", FALSE)
    /\ UNCHANGED <<CurrentState, CurrentUrl, Paused, sinkVars, trackVars, audioCache,
                   videoCache, VideoSinkFormat, samplerVars, destroyed, destroyCalls,
                   noConnections, sinkStates, calls, events, sinkCalls, captures, sent>>

\* FScopeLock, then NDIlib_recv_create_v2, which may fail.
OpenCreate ==
    /\ pc = "open_create"
    /\ CriticalSection = "none"
    /\ \E ok \in BOOLEAN :
          IF ok
            THEN /\ created' = created + 1
                 /\ ReceiverInstance' = created + 1
                 /\ CriticalSection' = "control"
                 /\ Goto("open_finalize")
                 /\ UNCHANGED <<callArg, closeCaller>>
            ELSE /\ created' = created
                 /\ ReceiverInstance' = 0
                 /\ CriticalSection' = "none"
                 /\ Return("Open", "create", FALSE)
    /\ UNCHANGED <<CurrentState, CurrentUrl, Paused, sinkVars, trackVars, audioCache,
                   videoCache, VideoSinkFormat, samplerVars, destroyed, destroyCalls,
                   noConnections, sinkStates, calls, events, sinkCalls, captures, sent>>

\* The metadata sends, the finalization and the broadcasts, all before the
\* FScopeLock of Open goes out of scope at the return.
OpenFinalize ==
    /\ pc = "open_finalize"
    /\ CriticalSection = "control"
    /\ \E hints \in BOOLEAN, custom \in BOOLEAN :
          sent' = <<"ndi_product">>
                    \o (IF hints THEN <<"ndi_format">> ELSE <<>>)
                    \o (IF custom THEN <<"custom">> ELSE <<>>)
    /\ CurrentUrl' = callArg
    /\ events' = events \o <<"TracksChanged", "MediaOpened">>
    /\ CriticalSection' = "none"
    /\ Return("Open", "opened", TRUE)
    /\ UNCHANGED <<ReceiverInstance, CurrentState, Paused, sinkVars, trackVars,
                   audioCache, videoCache, VideoSinkFormat, samplerVars, transportVars,
                   sinkStates, calls, sinkCalls, captures>>

\* ---- TickPlayer

TargetState(paused, IsConnected) ==
    IF paused THEN "Paused" ELSE IF IsConnected THEN "Playing" ELSE "Preparing"

\* The condition under which TickPlayer takes the new state.
StateChanged(State, current, sink) == State # current /\ sink # 0

\* TickEvents with the two broadcasts exchanged.
TickEventsExchanged(State) ==
    IF State = "Playing" THEN <<"PlaybackSuspended">> ELSE <<"PlaybackResumed">>

TickEvents(State) ==
    IF State = "Playing" THEN <<"PlaybackResumed">> ELSE <<"PlaybackSuspended">>

\* TickSinkCalls with the sink flushed before it is paused.
TickSinkCallsFlushFirst(State, sink) ==
    IF State = "Playing"
      THEN <<Call("ResumeAudioSink", sink, <<>>)>>
      ELSE <<Call("FlushAudioSink", sink, <<>>), Call("PauseAudioSink", sink, <<>>)>>

TickSinkCalls(State, sink) ==
    IF State = "Playing"
      THEN <<Call("ResumeAudioSink", sink, <<>>)>>
      ELSE <<Call("PauseAudioSink", sink, <<>>), Call("FlushAudioSink", sink, <<>>)>>

TickPlayer ==
    /\ Idle
    /\ sent' = <<>>
    /\ IF ReceiverInstance = 0
         THEN /\ events' = <<>> /\ sinkCalls' = <<>> /\ captures' = <<>>
              /\ UNCHANGED <<CurrentState, samplerInstance>>
              /\ Return("TickPlayer", CurrentState, TRUE)
         ELSE LET IsConnected == noConnections > 0
                  State == TargetState(Paused, IsConnected)
                  changed == StateChanged(State, CurrentState, AudioSink)
                  audioCalls == IF changed THEN TickSinkCalls(State, AudioSink) ELSE <<>>
              IN  /\ CurrentState' = IF changed THEN State ELSE CurrentState
                  /\ IF changed
                       THEN UpdateAudioSampler(ReceiverInstance, Paused, AudioSink,
                                               SelectedAudioTrack)
                       ELSE UNCHANGED samplerInstance
                  /\ events' = IF changed THEN TickEvents(State) ELSE <<>>
                  /\ IF MetadataSink # 0
                       THEN \E FrameType \in {"error", "none", "metadata"} :
                              /\ captures' = <<[kind |-> "metadata",
                                                on |-> ReceiverInstance,
                                                got |-> FrameType]>>
                              /\ sinkCalls' = audioCalls \o
                                   (IF FrameType = "metadata"
                                      THEN <<Call("ProcessBinarySinkData",
                                                  MetadataSink, <<>>)>>
                                      ELSE <<>>)
                       ELSE captures' = <<>> /\ sinkCalls' = audioCalls
                  /\ Return("TickPlayer", CurrentState, TRUE)
    /\ UNCHANGED <<ReceiverInstance, CurrentUrl, Paused, sinkVars, trackVars,
                   audioCache, videoCache, VideoSinkFormat, CriticalSection,
                   samplerPc, samplerFrame, samplerCalls, transportVars,
                   sinkStates>>

\* ---- TickVideo

\* What a returned TickVideo is remembered by: the dimensions of the frame it
\* processed (ZeroValue if it captured none), the sink bound at the time, what
\* became of the sink's initialize hook ("none" if it was not called), and the
\* same three for the TickVideo just before it, if that was the previous call.
NoFrame == [dim |-> ZeroValue, sink |-> 0, init |-> "none"]

PreviousFrame ==
    IF lastCall.op = "TickVideo"
      THEN [dim |-> lastCall.arg.dim, sink |-> lastCall.arg.sink,
            init |-> lastCall.arg.init]
      ELSE NoFrame

FrameNote(dim, sink, init) ==
    [dim |-> dim, sink |-> sink, init |-> init, prev |-> PreviousFrame]

\* TickVideo, and CaptureVideoFrame up to its FScopeLock: one capture against
\* ReceiverInstance, whatever it is. Only a live handle yields a frame.
TickVideo ==
    /\ Idle
    /\ events' = <<>> /\ sinkCalls' = <<>> /\ sent' = <<>>
    /\ IF Paused
         THEN /\ captures' = <<>>
              /\ Return("TickVideo", FrameNote(ZeroValue, 0, "none"), TRUE)
         ELSE \E FrameType \in {"error", "none", "video"} :
                /\ FrameType = "video" => ReceiverInstance # 0
                /\ captures' = <<[kind |-> "video", on |-> ReceiverInstance,
                                  got |-> FrameType]>>
                /\ IF FrameType = "video"
                     THEN \E VideoFrame \in VideoFrames :
                            /\ callArg' = VideoFrame
                            /\ Goto("capture_video")
                            /\ UNCHANGED closeCaller
                     ELSE Return("TickVideo", FrameNote(ZeroValue, 0, "none"), TRUE)
    /\ UNCHANGED <<playerVars, CriticalSection, samplerVars, transportVars,
                   sinkStates>>

\* FScopeLock of CaptureVideoFrame.
CaptureVideoFrame ==
    /\ pc = "capture_video"
    /\ CriticalSection = "none"
    /\ CriticalSection' = "control"
    /\ Goto("process_video")
    /\ UNCHANGED <<playerVars, samplerVars, transportVars, sinkStates,
                   calls, callArg, closeCaller, events, sinkCalls, captures, sent>>

\* TextureSinkStale with the comparison lost: every frame finds the sink stale.
TextureSinkStaleAlways(sink, format, dim) == TRUE

\* The sink does not report the format and the dimensions of the frame.
TextureSinkStale(sink, format, dim) ==
    \/ textureSinkState[sink].format # format
    \/ textureSinkState[sink].dim # dim

\* VideoSinkCalls with the early return lost: the frame is forwarded even when
\* the initialize hook failed.
VideoSinkCallsForwardAlways(sink, dim, buffer, format, stale, ok) ==
    (IF stale
       THEN <<Call("InitializeTextureSink", sink, <<dim, buffer, format>>)>>
       ELSE <<>>)
    \o <<Call("UpdateTextureSinkBuffer", sink, <<>>),
          Call("DisplayTextureSinkBuffer", sink, <<>>)>>

\* The hooks ProcessVideoFrame calls on the bound sink, in order.
VideoSinkCalls(sink, dim, buffer, format, stale, ok) ==
    (IF stale
       THEN <<Call("InitializeTextureSink", sink, <<dim, buffer, format>>)>>
       ELSE <<>>)
    \o (IF stale /\ ~ok
          THEN <<>>
          ELSE <<Call("UpdateTextureSinkBuffer", sink, <<>>),
                 Call("DisplayTextureSinkBuffer", sink, <<>>)>>)

\* ProcessVideoFrame under the lock of CaptureVideoFrame, and the return.
ProcessVideoFrame ==
    /\ pc = "process_video"
    /\ CriticalSection = "control"
    /\ LET dim == <<callArg.xres, callArg.yres>>
           buffer == <<callArg.line_stride_in_bytes \div 4, callArg.yres>>
       IN  /\ LastBufferDim' = buffer
           /\ LastVideoDim' = dim
           /\ IF VideoSink = 0
                THEN /\ sinkCalls' = <<>>
                     /\ UNCHANGED textureSinkState
                     /\ Return("TickVideo", FrameNote(dim, 0, "none"), TRUE)
                ELSE LET stale == TextureSinkStale(VideoSink, VideoSinkFormat, dim)
                     IN  \E ok \in BOOLEAN :
                           /\ ~stale => ok
                           /\ sinkCalls' = VideoSinkCalls(VideoSink, dim, buffer,
                                                          VideoSinkFormat, stale, ok)
                           /\ textureSinkState' =
                                IF stale /\ ok
                                  THEN [textureSinkState EXCEPT ![VideoSink] =
                                          [dim |-> dim, format |-> VideoSinkFormat]]
                                  ELSE textureSinkState
                           /\ Return("TickVideo",
                                     FrameNote(dim, VideoSink,
                                               IF ~stale THEN "none"
                                               ELSE IF ok THEN "ok" ELSE "failed"),
                                     TRUE)
    /\ CriticalSection' = "none"
    /\ UNCHANGED <<ReceiverInstance, CurrentState, CurrentUrl, Paused, sinkVars,
                   trackVars, audioCache, LastVideoFrameRate, VideoSinkFormat,
                   samplerVars, transportVars, audioSinkFormat, audioInitFailed,
                   calls, events, captures, sent>>

\* ---- sink binding

\* The write of a sink member (AudioSink = Sink), at its place among the
\* calls of the sinks' hooks.
Bind(member, sink) == Call(member, sink, <<>>)

SetAudioSinkCall(Sink) ==
    /\ Idle
    /\ events' = <<>> /\ sinkCalls' = <<>> /\ captures' = <<>> /\ sent' = <<>>
    /\ IF Sink = AudioSink
         THEN /\ Return("SetAudioSink", 0, TRUE)
              /\ UNCHANGED CriticalSection
         ELSE /\ CriticalSection = "none"
              /\ CriticalSection' = "control"
              /\ Goto("set_audio_sink")
              /\ callArg' = Sink
              /\ UNCHANGED closeCaller
    /\ UNCHANGED <<playerVars, samplerVars, transportVars, sinkStates>>

\* The body of SetAudioSink under the lock. InitializeAudioSink may fail; its
\* result is not read here.
SetAudioSinkBody ==
    /\ pc = "set_audio_sink"
    /\ CriticalSection = "control"
    /\ \E ok \in BOOLEAN :
         /\ audioSinkFormat' =
              IF callArg # 0 /\ ok
                THEN [audioSinkFormat EXCEPT
                        ![callArg] = <<LastAudioChannels, LastAudioSampleRate>>]
                ELSE audioSinkFormat
         /\ callArg = 0 => ok
    /\ sinkCalls' =
         (IF AudioSink # 0
            THEN <<Call("ShutdownAudioSink", AudioSink, <<>>)>> ELSE <<>>)
         \o (IF callArg # 0
               THEN <<Call("InitializeAudioSink", callArg,
                           <<LastAudioChannels, LastAudioSampleRate>>)>>
               ELSE <<>>)
         \o <<Bind("AudioSink", callArg)>>
    /\ AudioSink' = callArg
    /\ audioInitFailed' = 0
    /\ UpdateAudioSampler(ReceiverInstance, Paused, callArg, SelectedAudioTrack)
    /\ CriticalSection' = "none"
    /\ Return("SetAudioSink", 0, TRUE)
    /\ UNCHANGED <<ReceiverInstance, CurrentState, CurrentUrl, Paused, MetadataSink,
                   VideoSink, trackVars, audioCache, videoCache, VideoSinkFormat,
                   samplerPc, samplerFrame, samplerCalls, transportVars,
                   textureSinkState, calls, events, captures, sent>>

SetMetadataSink(Sink) ==
    /\ Idle
    /\ events' = <<>> /\ captures' = <<>> /\ sent' = <<>>
    /\ IF Sink = MetadataSink
         THEN sinkCalls' = <<>> /\ UNCHANGED MetadataSink
         ELSE /\ sinkCalls' =
                   (IF MetadataSink # 0
                      THEN <<Call("ShutdownBinarySink", MetadataSink, <<>>)>>
                      ELSE <<>>)
                   \o (IF Sink # 0
                         THEN <<Call("InitializeBinarySink", Sink, <<>>)>>
                         ELSE <<>>)
                   \o <<Bind("MetadataSink", Sink)>>
              /\ MetadataSink' = Sink
    /\ Return("SetMetadataSink", 0, TRUE)
    /\ UNCHANGED <<ReceiverInstance, CurrentState, CurrentUrl, Paused, AudioSink,
                   VideoSink, trackVars, audioCache, videoCache, VideoSinkFormat,
                   CriticalSection, samplerVars, transportVars, sinkStates>>

SetVideoSinkCall(Sink) ==
    /\ Idle
    /\ events' = <<>> /\ sinkCalls' = <<>> /\ captures' = <<>> /\ sent' = <<>>
    /\ IF Sink = VideoSink
         THEN /\ Return("SetVideoSink", 0, TRUE)
              /\ UNCHANGED CriticalSection
         ELSE /\ CriticalSection = "none"
              /\ CriticalSection' = "control"
              /\ Goto("set_video_sink")
              /\ callArg' = Sink
              /\ UNCHANGED closeCaller
    /\ UNCHANGED <<playerVars, samplerVars, transportVars, sinkStates>>

\* The body of SetVideoSink under the lock: the binding is recorded before
\* the new sink is initialized.
SetVideoSinkBody ==
    /\ pc = "set_video_sink"
    /\ CriticalSection = "control"
    /\ \E ok \in BOOLEAN :
         /\ textureSinkState' =
              IF callArg # 0 /\ ok
                THEN [textureSinkState EXCEPT
                        ![callArg] = [dim |-> LastVideoDim, format |-> VideoSinkFormat]]
                ELSE textureSinkState
         /\ callArg = 0 => ok
    /\ sinkCalls' =
         (IF VideoSink # 0
            THEN <<Call("ShutdownTextureSink", VideoSink, <<>>)>> ELSE <<>>)
         \o <<Bind("VideoSink", callArg)>>
         \o (IF callArg # 0
               THEN <<Call("InitializeTextureSink", callArg,
                           <<LastVideoDim, LastBufferDim, VideoSinkFormat>>)>>
               ELSE <<>>)
    /\ VideoSink' = callArg
    /\ CriticalSection' = "none"
    /\ Return("SetVideoSink", 0, TRUE)
    /\ UNCHANGED <<ReceiverInstance, CurrentState, CurrentUrl, Paused, AudioSink,
                   MetadataSink, trackVars, audioCache, videoCache, VideoSinkFormat,
                   samplerVars, transportVars, audioSinkFormat, audioInitFailed,
                   calls, events, captures, sent>>

\* ---- track selection

TrackTypes == {"Audio", "Metadata", "Video", "Caption"}
TrackIndices == {INDEX_NONE, 0, 1}

SelectTrack(TrackType, TrackIndex) ==
    /\ Idle
    /\ events' = <<>> /\ sinkCalls' = <<>> /\ captures' = <<>> /\ sent' = <<>>
    /\ IF TrackIndex # INDEX_NONE /\ TrackIndex # 0
         THEN /\ UNCHANGED <<trackVars, samplerInstance>>
              /\ Return("SelectTrack", <<TrackType, TrackIndex>>, FALSE)
         ELSE IF TrackType = "Audio"
           THEN /\ SelectedAudioTrack' = TrackIndex
                /\ UpdateAudioSampler(ReceiverInstance, Paused, AudioSink, TrackIndex)
                /\ UNCHANGED <<SelectedMetadataTrack, SelectedVideoTrack>>
                /\ Return("SelectTrack", <<TrackType, TrackIndex>>, TRUE)
           ELSE IF TrackType = "Metadata"
             THEN /\ SelectedMetadataTrack' = TrackIndex
                  /\ UNCHANGED <<SelectedAudioTrack, SelectedVideoTrack,
                                 samplerInstance>>
                  /\ Return("SelectTrack", <<TrackType, TrackIndex>>, TRUE)
             ELSE IF TrackType = "Video"
               THEN /\ SelectedVideoTrack' = TrackIndex
                    /\ UNCHANGED <<SelectedAudioTrack, SelectedMetadataTrack,
                                   samplerInstance>>
                    /\ Return("SelectTrack", <<TrackType, TrackIndex>>, TRUE)
               ELSE /\ UNCHANGED <<trackVars, samplerInstance>>
                    /\ Return("SelectTrack", <<TrackType, TrackIndex>>, FALSE)
    /\ UNCHANGED <<ReceiverInstance, CurrentState, CurrentUrl, Paused, sinkVars,
                   audioCache, videoCache, VideoSinkFormat, CriticalSection,
                   samplerPc, samplerFrame, samplerCalls, transportVars,
                   sinkStates>>

\* ---- the audio sampling activity

\* One poll of the sampler: a non-blocking audio capture against the handle
\* it holds. Against a destroyed handle the capture is a use after free.
SamplerCapture ==
    /\ samplerPc = "idle"
    /\ samplerInstance # 0
    /\ \E outcome \in {"none", "frame", "crash"} :
         /\ outcome = "crash" => samplerInstance \in destroyed
         /\ IF outcome = "frame"
              THEN \E f \in AudioFrames :
                      samplerFrame' = f /\ samplerPc' = "deliver"
              ELSE /\ samplerFrame' = samplerFrame
                   /\ samplerPc' = IF outcome = "crash" THEN "crashed" ELSE "idle"
    /\ UNCHANGED <<playerVars, CriticalSection, samplerInstance, samplerCalls,
                   transportVars, sinkStates, callVars>>

\* FScopeLock of HandleAudioSamplerSample.
HandleAudioSamplerSample ==
    /\ samplerPc = "deliver"
    /\ CriticalSection = "none"
    /\ CriticalSection' = "sampler"
    /\ samplerPc' = "process"
    /\ UNCHANGED <<playerVars, samplerInstance, samplerFrame, samplerCalls,
                   transportVars, sinkStates, callVars>>

ProcessAudioFrame ==
    /\ samplerPc = "process"
    /\ CriticalSection = "sampler"
    /\ LastAudioChannels' = samplerFrame.no_channels
    /\ LastAudioSampleRate' = samplerFrame.sample_rate
    /\ LET fmt == <<samplerFrame.no_channels, samplerFrame.sample_rate>>
           init == Call("InitializeAudioSink", AudioSink, fmt)
           play == Call("PlayAudioSink", AudioSink, fmt)
       IN  IF AudioSink = 0
             THEN /\ samplerCalls' = <<>>
                  /\ audioInitFailed' = 0
                  /\ UNCHANGED audioSinkFormat
             ELSE IF audioSinkFormat[AudioSink] # fmt
               THEN \E ok \in BOOLEAN :
                      IF ok
                        THEN /\ audioSinkFormat' =
                                  [audioSinkFormat EXCEPT ![AudioSink] = fmt]
                             /\ samplerCalls' = <<init, play>>
                             /\ audioInitFailed' = 0
                        ELSE /\ UNCHANGED audioSinkFormat
                             /\ samplerCalls' = <<init>>
                             /\ audioInitFailed' = AudioSink
               ELSE /\ samplerCalls' = <<play>>
                    /\ audioInitFailed' = 0
                    /\ UNCHANGED audioSinkFormat
    /\ CriticalSection' = "none"
    /\ samplerPc' = "idle"
    /\ samplerFrame' = 0
    /\ UNCHANGED <<ReceiverInstance, CurrentState, CurrentUrl, Paused, sinkVars,
                   trackVars, videoCache, VideoSinkFormat, samplerInstance,
                   transportVars, textureSinkState, callVars>>

\* ---- the transport: senders connect to and disconnect from a live handle

ConnectionsChange ==
    /\ ReceiverInstance # 0
    /\ samplerPc # "crashed"
    /\ noConnections' = 1 - noConnections
    /\ UNCHANGED <<playerVars, CriticalSection, samplerVars, created, destroyed, destroyCalls,
                   sinkStates, callVars>>

Next ==
    \/ \E r \in Rates : SetRate(r)
    \/ CloseCall
    \/ Destructor
    \/ DeleteSampler
    \/ CloseTeardown
    \/ CloseUpdate
    \/ CloseNotify
    \/ \E u \in Urls : OpenCall(u)
    \/ OpenCheck
    \/ OpenCreate
    \/ OpenFinalize
    \/ TickPlayer
    \/ TickVideo
    \/ CaptureVideoFrame
    \/ ProcessVideoFrame
    \/ \E s \in Sinks \cup {0} : SetAudioSinkCall(s)
    \/ SetAudioSinkBody
    \/ \E s \in Sinks \cup {0} : SetMetadataSink(s)
    \/ \E s \in Sinks \cup {0} : SetVideoSinkCall(s)
    \/ SetVideoSinkBody
    \/ \E t \in TrackTypes, i \in TrackIndices : SelectTrack(t, i)
    \/ SamplerCapture
    \/ HandleAudioSamplerSample
    \/ ProcessAudioFrame
    \/ ConnectionsChange

Spec == Init /\ [][Next]_vars

\* ---------------------------------------------------------------------
\* Properties

\* The calls the log holds, by name, of the audio sink's playback hooks.
AudioCallNames(log) ==
    LET hooks == SelectSeq(log, LAMBDA c :
                    c.call \in {"ResumeAudioSink", "PauseAudioSink", "FlushAudioSink"})
    IN  [i \in 1..Len(hooks) |-> hooks[i].call]

Range(seq) == {seq[i] : i \in 1..Len(seq)}

\* The step is a whole call of `op`, from its invocation to its return.
CallStep(op) ==
    /\ pc = "idle" /\ pc' = "idle"
    /\ calls' = calls + 1
    /\ lastCall'.op = op

\* The control cycle is back from a call of `op`.
Returned(op) == pc = "idle" /\ lastCall.op = op

\* C1: a successful Open broadcasts exactly TracksChanged then MediaOpened,
\* and nothing else, between its invocation and its return.
C1_OpenBroadcastsTwo ==
    (Returned("Open") /\ lastCall.ret)
        => events = <<"TracksChanged", "MediaOpened">>

\* C2: Close on a player that is already closed (no handle, state Closed)
\* broadcasts no notification and leaves the player closed.
C2_CloseIdempotent ==
    (Returned("Close") /\ lastCall.arg)
        => (events = <<>> /\ ReceiverInstance = 0 /\ CurrentState = "Closed")

\* C3: after every TickPlayer run with a live handle, the state is the derived
\* target: Paused if the pause flag is set, else Playing if connected, else
\* Preparing, whatever sinks are bound.
C3_TickDerivesState ==
    [][(CallStep("TickPlayer") /\ ReceiverInstance # 0)
          => CurrentState' = TargetState(Paused, noConnections > 0)]_vars

\* C4: with an audio sink bound and the pause flag clear on a live handle, a
\* TickPlayer that observes a connection while not Playing goes to Playing and
\* broadcasts PlaybackResumed once; while Playing and still connected it
\* broadcasts nothing; while Playing and no longer connected it goes to
\* Preparing, broadcasts PlaybackSuspended once and pauses then flushes the
\* audio sink.
C4_TickResumeSuspend ==
    [][(CallStep("TickPlayer") /\ ReceiverInstance # 0 /\ AudioSink # 0 /\ ~Paused)
          => /\ (noConnections > 0 /\ CurrentState # "Playing")
                   => (CurrentState' = "Playing"
                         /\ events' = <<"PlaybackResumed">>)
             /\ (noConnections > 0 /\ CurrentState = "Playing")
                   => (CurrentState' = "Playing" /\ events' = <<>>)
             /\ (noConnections = 0 /\ CurrentState = "Playing")
                   => (CurrentState' = "Preparing"
                         /\ events' = <<"PlaybackSuspended">>
                         /\ AudioCallNames(sinkCalls')
                              = <<"PauseAudioSink", "FlushAudioSink">>)]_vars

\* A TickPlayer took a Playing player with a bound audio sink to Preparing.
C4_Witness ==
    /\ Returned("TickPlayer")
    /\ lastCall.arg = "Playing"
    /\ CurrentState = "Preparing"
    /\ AudioSink # 0 /\ ~Paused
    /\ events = <<"PlaybackSuspended">>
    /\ AudioCallNames(sinkCalls) = <<"PauseAudioSink", "FlushAudioSink">>

\* C5: when Open has returned success with no connection and the pause flag
\* clear, the state is Preparing; the state is Closed only while no handle is
\* live.
C5_OpenLeavesPreparing ==
    pc = "idle" =>
        /\ (lastCall.op = "Open" /\ lastCall.ret /\ ~Paused /\ noConnections = 0)
              => CurrentState = "Preparing"
        /\ CurrentState = "Closed" => ReceiverInstance = 0

\* C6, as claimed: a TickPlayer that changes the state broadcasts exactly one
\* of PlaybackResumed and PlaybackSuspended, PlaybackResumed only when the new
\* state is Playing and PlaybackSuspended, with pause then flush, only when the
\* previous state was Playing; a TickPlayer that does not change the state
\* broadcasts neither.
C6_SuspendedOnlyLeavingPlaying ==
    [][CallStep("TickPlayer")
          => LET resumed == "PlaybackResumed" \in Range(events')
                 suspended == "PlaybackSuspended" \in Range(events')
             IN  IF CurrentState' # CurrentState
                   THEN /\ Len(events') = 1
                        /\ resumed \/ suspended
                        /\ resumed => CurrentState' = "Playing"
                        /\ suspended =>
                             (CurrentState = "Playing"
                                /\ AudioCallNames(sinkCalls')
                                     = <<"PauseAudioSink", "FlushAudioSink">>)
                   ELSE ~resumed /\ ~suspended]_vars

\* C6, amended: a TickPlayer that changes the state broadcasts exactly one
\* notification: PlaybackResumed, with a resume of the audio sink, when the new
\* state is Playing, and PlaybackSuspended, with pause then flush, when the new
\* state is anything else, whatever the previous state was; a TickPlayer that
\* does not change the state broadcasts nothing and calls no playback hook.
C6_TickBroadcastsOne ==
    [][CallStep("TickPlayer")
          => IF CurrentState' # CurrentState
               THEN IF CurrentState' = "Playing"
                      THEN /\ events' = <<"PlaybackResumed">>
                           /\ AudioCallNames(sinkCalls') = <<"ResumeAudioSink">>
                      ELSE /\ events' = <<"PlaybackSuspended">>
                           /\ AudioCallNames(sinkCalls')
                                = <<"PauseAudioSink", "FlushAudioSink">>
               ELSE events' = <<>> /\ AudioCallNames(sinkCalls') = <<>>]_vars

\* A TickPlayer took a player that was not Playing to Preparing and broadcast
\* PlaybackSuspended.
C6_Witness ==
    /\ Returned("TickPlayer")
    /\ lastCall.arg = "Closed"
    /\ CurrentState = "Preparing"
    /\ events = <<"PlaybackSuspended">>
    /\ AudioCallNames(sinkCalls) = <<"PauseAudioSink", "FlushAudioSink">>

\* C7: when Open, Close, SetRate, SelectTrack, SetAudioSink or TickPlayer has
\* returned, the sampler holds the live handle if and only if a handle is
\* live, the pause flag is clear, an audio sink is bound and audio track 0 is
\* selected; otherwise it holds none.
C7_SamplerEnablement ==
    (pc = "idle" /\ lastCall.op \in {"Open", "Close", "SetRate", "SelectTrack",
                                     "SetAudioSink", "TickPlayer"})
        => samplerInstance =
             (IF ReceiverInstance # 0
                   /\ SampleAudio(Paused, AudioSink, SelectedAudioTrack)
                THEN ReceiverInstance ELSE 0)

\* C8: the sampler never holds a handle that has been destroyed.
C8_SamplerHandleLive ==
    samplerInstance # 0 => samplerInstance \notin destroyed

\* C9: once SetRate(0.0) has returned, it has returned success and GetRate
\* is 0.0, with no TickPlayer in between.
C9_SetRateZeroThenGetRate ==
    (Returned("SetRate") /\ lastCall.arg = 0)
        => (lastCall.ret /\ GetRate = 0)

\* C10: SetRate with a rate other than 0.0 and 1.0 returns failure, changes
\* no member of the player, no sink and not the sampler, and broadcasts
\* nothing.
C10_SetRateRejects ==
    [][(CallStep("SetRate") /\ lastCall'.arg \notin {0, 10})
          => /\ lastCall'.ret = FALSE
             /\ UNCHANGED <<playerVars, CriticalSection, samplerVars,
                            transportVars, sinkStates>>
             /\ events' = <<>> /\ sinkCalls' = <<>>]_vars

\* SetRate(0.5) has been rejected on a paused player that is Playing.
C10_Witness ==
    /\ Returned("SetRate")
    /\ lastCall.arg = 5 /\ ~lastCall.ret
    /\ CurrentState = "Playing" /\ Paused

\* The locator is one Open rejects by its form: empty, or without the scheme
\* at its front (letter case aside).
Malformed(Url) ==
    \/ Url = <<>>
    \/ Len(Url) < Len(Scheme)
    \/ [i \in 1..Len(Scheme) |-> Lower(Url[i])] # Scheme

\* The control cycle is inside a call of Open and Close has not returned it
\* to the locator check yet, or is at the check.
InOpen == closeCaller = "Open"

\* C11: an Open with a locator that is empty or does not start with the
\* scheme prefix creates no handle at any of its steps and returns failure
\* with no handle live and the state Closed.
C11_OpenRejectsLocator ==
    [][(InOpen /\ Malformed(callArg))
          => /\ created' = created
             /\ pc' # "open_create"
             /\ pc' = "idle" => /\ lastCall'.op = "Open"
                                /\ lastCall'.ret = FALSE
                                /\ ReceiverInstance' = 0
                                /\ CurrentState' = "Closed"]_vars

\* Open has rejected a locator on a player that had opened a source before.
C11_Witness ==
    /\ Returned("Open")
    /\ lastCall.arg = "locator" /\ ~lastCall.ret
    /\ created > 0
    /\ ReceiverInstance = 0 /\ CurrentState = "Closed"

\* C12: an Open with an empty or wrongly prefixed locator on a player with a
\* live handle returns failure, and no step of it changes the handle, the
\* state, the recorded locator, the format cache or the track selection, or
\* broadcasts a notification.
C12_RejectedOpenChangesNothing ==
    [][(InOpen /\ Malformed(callArg) /\ ReceiverInstance # 0 /\ pc' # pc)
          => /\ UNCHANGED <<ReceiverInstance, CurrentState, CurrentUrl,
                            audioCache, videoCache, trackVars>>
             /\ events' = <<>>
             /\ pc' = "idle" => lastCall'.ret = FALSE]_vars

\* C13: when NDIlib_recv_create_v2 has failed inside Open, Open has returned
\* failure, the state is Closed, no handle is live, the recorded locator is
\* empty, MediaOpened was not broadcast, no metadata was sent and the control
\* cycle does not hold the lock.
C13_CreateFailure ==
    (Returned("Open") /\ lastCall.arg = "create")
        => /\ lastCall.ret = FALSE
           /\ CurrentState = "Closed"
           /\ ReceiverInstance = 0
           /\ CurrentUrl = <<>>
           /\ "MediaOpened" \notin Range(events)
           /\ sent = <<>>
           /\ CriticalSection # "control"

\* The creation of a handle has failed in a re-open, after the Close of Open
\* had destroyed the handle of the first Open.
C13_Witness ==
    /\ Returned("Open")
    /\ lastCall.arg = "create" /\ ~lastCall.ret
    /\ destroyed # {}
    /\ events = <<"TracksChanged", "MediaClosed">>

\* C14: SelectTrack with an index other than INDEX_NONE and 0 returns false
\* and changes no track selection and not the sampler's handle reference;
\* SelectTrack(Audio, INDEX_NONE) returns true, records INDEX_NONE for audio
\* and leaves the sampler without a handle.
C14_SelectTrack ==
    [][CallStep("SelectTrack")
          => LET TrackType == lastCall'.arg[1]
                 TrackIndex == lastCall'.arg[2]
             IN  /\ TrackIndex \notin {INDEX_NONE, 0}
                      => /\ lastCall'.ret = FALSE
                         /\ UNCHANGED <<trackVars, samplerInstance>>
                 /\ (TrackType = "Audio" /\ TrackIndex = INDEX_NONE)
                      => /\ lastCall'.ret = TRUE
                         /\ SelectedAudioTrack' = INDEX_NONE
                         /\ samplerInstance' = 0]_vars

\* SelectTrack(Audio, INDEX_NONE) has returned on a player with a live handle,
\* a bound audio sink and the pause flag clear: only the selection keeps the
\* sampler disabled.
C14_Witness ==
    /\ Returned("SelectTrack")
    /\ lastCall.arg = <<"Audio", INDEX_NONE>> /\ lastCall.ret
    /\ ReceiverInstance # 0 /\ AudioSink # 0 /\ ~Paused
    /\ SelectedAudioTrack = INDEX_NONE
    /\ samplerInstance = 0

\* The handles the transport has created and not destroyed.
LiveHandles == {h \in 1..created : h \notin Range(destroyCalls)}

\* The calls of NDIlib_recv_destroy on `handle`.
DestroyCount(handle) ==
    Cardinality({i \in 1..Len(destroyCalls) : destroyCalls[i] = handle})

\* C15: at most one handle is live, and it is the one the player holds; no
\* handle is destroyed twice; and none is live between the teardown of a Close
\* (called by Open, by the caller or by the destructor) and the next creation.
C15_HandlesDestroyedOnce ==
    /\ Cardinality(LiveHandles) <= 1
    /\ LiveHandles \subseteq {ReceiverInstance}
    /\ \A h \in 1..created : DestroyCount(h) <= 1
    /\ pc \in {"close_update", "close_notify", "open_check", "open_create",
               "delete_sampler", "deleted"} => LiveHandles = {}
    /\ (Returned("Close") \/ (Returned("Open") /\ ~lastCall.ret)) => LiveHandles = {}

\* The player is deleted after two successful Opens: both handles were
\* destroyed, the first by the second Open, the second by the destructor.
C15_Witness ==
    /\ pc = "deleted"
    /\ created = 2
    /\ destroyCalls = <<1, 2>>

\* The calls of the texture sink's initialize hook the log holds.
TextureInitCalls(log) ==
    SelectSeq(log, LAMBDA c : c.call = "InitializeTextureSink")

\* The step is the frame processing of a TickVideo, up to its return.
VideoFrameStep == pc = "process_video" /\ pc' = "idle"

\* The call before this TickVideo was a TickVideo too, and it processed a
\* frame with the sink bound that is bound now.
ConsecutiveFrames ==
    /\ VideoSink # 0
    /\ lastCall.op = "TickVideo"
    /\ lastCall.arg.sink = VideoSink

\* The one initialize call of the frame the step processes.
FrameInitCall ==
    <<Call("InitializeTextureSink", VideoSink,
           <<LastVideoDim', LastBufferDim', VideoSinkFormat>>)>>

\* C16, as claimed: of two consecutive video frames with identical dimensions
\* on a bound sink, the second calls no initialize hook; a frame that follows
\* one of other dimensions calls the initialize hook exactly once, with the
\* new dimensions.
C16_InitializeOncePerFormat ==
    [][(VideoFrameStep /\ ConsecutiveFrames)
          => IF lastCall.arg.dim = LastVideoDim'
               THEN TextureInitCalls(sinkCalls') = <<>>
               ELSE TextureInitCalls(sinkCalls') = FrameInitCall]_vars

\* C16, amended: the same, for a frame that follows a frame whose initialize
\* call, if there was one, succeeded; a frame that follows a frame of the same
\* dimensions whose initialize call failed calls the initialize hook again.
C16_InitializeOncePerAcceptedFormat ==
    [][(VideoFrameStep /\ ConsecutiveFrames)
          => IF lastCall.arg.init # "failed"
               THEN IF lastCall.arg.dim = LastVideoDim'
                      THEN TextureInitCalls(sinkCalls') = <<>>
                      ELSE TextureInitCalls(sinkCalls') = FrameInitCall
               ELSE lastCall.arg.dim = LastVideoDim'
                      => TextureInitCalls(sinkCalls') = FrameInitCall]_vars

\* The second of two consecutive frames of the same dimensions has been
\* processed without an initialize call, the first having initialized the sink.
C16_Witness ==
    /\ Returned("TickVideo")
    /\ lastCall.arg.sink # 0
    /\ lastCall.arg.prev.sink = lastCall.arg.sink
    /\ lastCall.arg.prev.dim = lastCall.arg.dim
    /\ lastCall.arg.prev.init = "ok"
    /\ lastCall.arg.init = "none"
    /\ TextureInitCalls(sinkCalls) = <<>>
    /\ Len(sinkCalls) = 2

\* C17: Close broadcasts nothing before its last step, which comes after the
\* handle is destroyed and the sampler's handle reference is updated; a Close
\* on a player that was not closed has broadcast exactly TracksChanged then
\* MediaClosed when it returns.
C17_CloseBroadcasts ==
    /\ pc \in {"close_teardown", "close_update", "close_notify"} => events = <<>>
    /\ pc = "close_notify"
          => (ReceiverInstance = 0 /\ LiveHandles = {} /\ samplerInstance = 0)
    /\ (Returned("Close") /\ ~lastCall.arg)
          => events = <<"TracksChanged", "MediaClosed">>

\* Close has returned on a player that had a live handle.
C17_Witness ==
    /\ Returned("Close")
    /\ ~lastCall.arg
    /\ destroyed # {}
    /\ LiveHandles = {}
    /\ events = <<"TracksChanged", "MediaClosed">>

\* An entry of the format cache goes from a value to zero.
CacheEntryReset ==
    \/ LastAudioChannels # 0 /\ LastAudioChannels' = 0
    \/ LastAudioSampleRate # 0 /\ LastAudioSampleRate' = 0
    \/ LastBufferDim # ZeroValue /\ LastBufferDim' = ZeroValue
    \/ LastVideoDim # ZeroValue /\ LastVideoDim' = ZeroValue
    \/ LastVideoFrameRate # 0 /\ LastVideoFrameRate' = 0

\* C18: at the return of Close, whatever the sampler delivered meanwhile, no
\* handle is live, the state is Closed, the recorded locator is empty, every
\* entry of the format cache is zero, every track selection is INDEX_NONE and
\* the sampler holds no handle; and only the teardown of Close resets an entry
\* of the format cache.
C18_CloseLeavesAllReset ==
    [][/\ (pc = "close_notify" /\ closeCaller = "Close" /\ pc' = "idle")
            => /\ ReceiverInstance' = 0
               /\ CurrentState' = "Closed"
               /\ CurrentUrl' = <<>>
               /\ LastAudioChannels' = 0 /\ LastAudioSampleRate' = 0
               /\ LastBufferDim' = ZeroValue /\ LastVideoDim' = ZeroValue
               /\ LastVideoFrameRate' = 0
               /\ SelectedAudioTrack' = INDEX_NONE
               /\ SelectedMetadataTrack' = INDEX_NONE
               /\ SelectedVideoTrack' = INDEX_NONE
               /\ samplerInstance' = 0
       /\ CacheEntryReset => pc = "close_teardown"]_vars

\* The step is the processing of an audio frame the sampler delivered.
AudioFrameStep == samplerPc = "process" /\ samplerPc' = "idle"

\* C19: a frame whose initialize call failed is not forwarded to the sink,
\* and the format cache holds its format; the next frame of the same format on
\* the same sink calls the initialize hook again. For video frames and for
\* audio frames.
C19_InitializeFailure ==
    [][/\ VideoFrameStep
            => /\ lastCall'.arg.init = "failed"
                    => /\ sinkCalls' = FrameInitCall
                       /\ LastVideoDim' = <<callArg.xres, callArg.yres>>
                       /\ LastBufferDim' = <<callArg.line_stride_in_bytes \div 4,
                                             callArg.yres>>
               /\ (ConsecutiveFrames /\ lastCall.arg.init = "failed"
                      /\ lastCall.arg.dim = LastVideoDim')
                    => TextureInitCalls(sinkCalls') = FrameInitCall
       /\ AudioFrameStep
            => LET fmt == <<samplerFrame.no_channels, samplerFrame.sample_rate>>
                   init == Call("InitializeAudioSink", AudioSink, fmt)
               IN  /\ audioInitFailed' # 0
                        => /\ samplerCalls' = <<init>>
                           /\ audioCache' = fmt
                   /\ (audioInitFailed # 0 /\ audioInitFailed = AudioSink
                          /\ audioCache = fmt)
                        => (Len(samplerCalls') > 0 /\ samplerCalls'[1] = init)]_vars

\* A video frame has called the initialize hook again after the frame before
\* it, of the same dimensions, was dropped for a failed initialize.
C19_Witness ==
    /\ Returned("TickVideo")
    /\ lastCall.arg.sink # 0
    /\ lastCall.arg.prev.sink = lastCall.arg.sink
    /\ lastCall.arg.prev.dim = lastCall.arg.dim
    /\ lastCall.arg.prev.init = "failed"
    /\ lastCall.arg.init = "ok"
    /\ Len(sinkCalls) = 3

\* C20: the state and the three sink bindings change only in steps of the
\* control cycle taken while it holds the lock.
C20_WritesUnderLock ==
    [][/\ CurrentState' # CurrentState => CriticalSection = "control"
       /\ AudioSink' # AudioSink => CriticalSection = "control"
       /\ VideoSink' # VideoSink => CriticalSection = "control"
       /\ MetadataSink' # MetadataSink => CriticalSection = "control"]_vars

\* C21: no step of Open or Close that sends a metadata payload or broadcasts
\* a notification is taken with the lock held by the control cycle, and Close
\* has released the lock when it updates the sampler.
C21_NoLockWhileSendingOrBroadcasting ==
    [][/\ (closeCaller \in {"Open", "Close"}
             /\ (Len(sent') > Len(sent) \/ Len(events') > Len(events)))
            => CriticalSection # "control"
       /\ (pc = "close_update" /\ pc' = "close_notify")
            => CriticalSection # "control"]_vars

\* What a binding of `new` in place of `old` is to call and write, in order:
\* the shutdown of the old sink, the initialize of the new one with the format
\* cache of its kind, then the write of the member.
ClaimedBinding(member, shutdown, initialize, old, new, cache) ==
    (IF old # 0 THEN <<Call(shutdown, old, <<>>)>> ELSE <<>>)
    \o (IF new # 0 THEN <<Call(initialize, new, cache)>> ELSE <<>>)
    \o <<Bind(member, new)>>

\* C22: binding the sink that is bound calls no hook and changes nothing;
\* binding another calls the shutdown hook of the old sink once, if there is
\* one, then the initialize hook of the new sink once, if there is one, with
\* the format cache of the kind, and only then records the binding. For the
\* audio, the video and the metadata sink.
C22_BindingOrder ==
    [][/\ (CallStep("SetAudioSink") \/ CallStep("SetVideoSink")
             \/ (CallStep("SetMetadataSink") /\ MetadataSink' = MetadataSink))
            => /\ sinkCalls' = <<>>
               /\ UNCHANGED <<playerVars, sinkStates, samplerVars>>
       /\ (pc = "set_audio_sink" /\ pc' = "idle")
            => /\ AudioSink' = callArg
               /\ sinkCalls' = ClaimedBinding("AudioSink", "ShutdownAudioSink",
                                   "InitializeAudioSink", AudioSink, callArg,
                                   <<LastAudioChannels, LastAudioSampleRate>>)
       /\ (CallStep("SetMetadataSink") /\ MetadataSink' # MetadataSink)
            => sinkCalls' = ClaimedBinding("MetadataSink", "ShutdownBinarySink",
                                "InitializeBinarySink", MetadataSink,
                                MetadataSink', <<>>)
       /\ (pc = "set_video_sink" /\ pc' = "idle")
            => /\ VideoSink' = callArg
               /\ sinkCalls' = ClaimedBinding("VideoSink", "ShutdownTextureSink",
                                   "InitializeTextureSink", VideoSink, callArg,
                                   <<LastVideoDim, LastBufferDim, VideoSinkFormat>>)]_vars

\* The same for the audio and the metadata sink alone.
AudioMetadataBindingOrder ==
    [][/\ (CallStep("SetAudioSink") \/ CallStep("SetVideoSink")
             \/ (CallStep("SetMetadataSink") /\ MetadataSink' = MetadataSink))
            => /\ sinkCalls' = <<>>
               /\ UNCHANGED <<playerVars, sinkStates, samplerVars>>
       /\ (pc = "set_audio_sink" /\ pc' = "idle")
            => /\ AudioSink' = callArg
               /\ sinkCalls' = ClaimedBinding("AudioSink", "ShutdownAudioSink",
                                   "InitializeAudioSink", AudioSink, callArg,
                                   <<LastAudioChannels, LastAudioSampleRate>>)
       /\ (CallStep("SetMetadataSink") /\ MetadataSink' # MetadataSink)
            => sinkCalls' = ClaimedBinding("MetadataSink", "ShutdownBinarySink",
                                "InitializeBinarySink", MetadataSink,
                                MetadataSink', <<>>)]_vars

\* C23: every capture the control cycle makes in a call is made on a live
\* handle; a video capture is made only with the pause flag clear and a
\* metadata capture only with a metadata sink bound.
C23_CapturesOnLiveHandle ==
    \A i \in 1..Len(captures) :
        /\ captures[i].on # 0
        /\ captures[i].on = ReceiverInstance
        /\ captures[i].kind = "video" => ~Paused
        /\ captures[i].kind = "metadata" => MetadataSink # 0

\* The same for the captures of TickPlayer alone.
MetadataCapturesOnLiveHandle ==
    \A i \in 1..Len(captures) :
        captures[i].kind = "metadata"
            => (captures[i].on # 0 /\ captures[i].on = ReceiverInstance
                  /\ MetadataSink # 0)

\* No video capture is made with the pause flag set.
NoVideoCaptureWhilePaused ==
    \A i \in 1..Len(captures) : captures[i].kind = "video" => ~Paused
====
